---- MODULE Spec2Model ----
(***************************************************************************)
(* Model selection of the CLI: the static selector selectModel, the        *)
(* dynamic verifier verifyModel with its probe checkModelExists, the       *)
(* timeout wrapper withTimeout and the model registry.                     *)
(*                                                                         *)
(* Strings are TLA+ strings (Len, \o and SubSeq act on them character by   *)
(* character).  An optional property of a JavaScript object is a field     *)
(* that is or is not in the DOMAIN of the record.                          *)
(***************************************************************************)
EXTENDS Integers, Sequences, FiniteSets, TLC

\* ------------------------------------------------------------------ bounds

\* How many strings of ValuePool the three candidate sources draw from.
NumValues == 4
\* How many error values of ErrorPool a probe may reject with or throw.
NumErrors == 4

\* ----------------------------------------------------------- JS primitives

\* The value undefined (an omitted argument, a missing property).  No string
\* of the model is spelled this way.
Undefined == "<undefined>"

\* Mutant of Falsy: the test is value === undefined, so the empty string
\* passes as a value.
Falsy_UndefinedOnly(value) == value = Undefined

\* Mutant of Falsy: the value is trimmed before it is tested.
Falsy_Trimmed(value) ==
  value = Undefined \/ (\A i \in 1..Len(value) : SubSeq(value, i, i) = " ")

\* !value for a string | undefined
Falsy(value) == value = Undefined \/ value = ""

\* String.prototype.includes
includes(s, sub) ==
  \E i \in 1..(Len(s) - Len(sub) + 1) : SubSeq(s, i, i + Len(sub) - 1) = sub

\* ---------------------------------------------------------- model registry

DEFAULT_GEMINI_MODEL == "gemini-2.5-pro"

SUPPORTED_GEMINI_MODELS ==
  << "gemini-2.5-pro",
     "gemini-2.5-flash",
     "gemini-2.5-flash-lite",
     "gemini-1.5-pro",
     "gemini-1.5-flash" >>

\* Mutant of isSupportedModel: no truthiness test, and the match is made with
\* String.prototype.includes on each entry in place of Array.prototype.includes,
\* so any substring of a listed name is accepted.
isSupportedModel_Substring(model) ==
  \E i \in DOMAIN SUPPORTED_GEMINI_MODELS :
    includes(SUPPORTED_GEMINI_MODELS[i], model)

isSupportedModel(model) ==
  /\ ~Falsy(model)
  /\ \E i \in DOMAIN SUPPORTED_GEMINI_MODELS : SUPPORTED_GEMINI_MODELS[i] = model

\* ------------------------------------------------------------------- inputs

\* Candidate strings: a supported name (the registry's default), an
\* unsupported name that contains the text "failed", a blank string, a
\* second supported name, a second unsupported name.
ValuePool ==
  << "gemini-2.5-pro", "failed-model", " ", "gemini-1.5-flash", "invalid-model" >>

\* What a candidate source may hold: nothing, the empty string, or a string.
CandidateValues ==
  {Undefined, ""} \cup {ValuePool[i] : i \in 1..NumValues}

\* The defaultModel argument: omitted, or a string of the caller's (one that
\* is in no registry and contains the text "failed").
DefaultValues == {Undefined, "failed-default-model"}

\* Values a probe rejects with (or throws): objects with an optional status,
\* code, response.status and message.  <<>> is a value with no property.
ErrorPool ==
  << [status |-> 404, message |-> "Model not available"],
     <<>>,
     [message |-> "timeout"],
     [status |-> 500, message |-> "Model not available"],
     [status |-> 403, message |-> "Model not available"],
     [status |-> 401, message |-> "Model not available"],
     [status |-> 429, message |-> "Model not available"],
     [status |-> 400],
     [code |-> 404],
     [response |-> [status |-> 503]],
     [status |-> 0, code |-> 404],
     [message |-> "Model not available"],
     [status |-> 404, message |-> "timeout"] >>

Errors == {ErrorPool[i] : i \in 1..NumErrors}

VARIABLES
  argvModel,      \* argv.model / verifyModel's argvModel
  settingsModel,  \* settings.model / verifyModel's settingsModel
  envModel,       \* envModel
  defaultModel,   \* the defaultModel argument (Undefined: omitted)
  clientErrors,   \* the values the probe client of this run may fail with
  selPc,          \* selectModel: "idle" | "done"
  selected,       \* selectModel's return value
  pc,             \* verifyModel: "idle" | "await" | "done" | "rejected"
  cur,            \* the source whose checkModelExists call is awaited
  logs,           \* verifyModel's logs
  model,          \* the model verifyModel returned
  returnedAt,     \* the return statement verifyModel left by
  calls,          \* the countTokens calls made, in order
  promise,        \* per call: the promise countTokens returned
  timer,          \* per call: the timer withTimeout armed
  settled,        \* << ev >> once the promise of the awaited call settled
                  \* with ev, << >> before; dropped with the call's frame
  outcome,        \* what the try block of the awaited checkModelExists saw
  exists,         \* per completed checkModelExists call: result.exists
  result          \* the last checkModelExists return value

vars ==
  << argvModel, settingsModel, envModel, defaultModel, clientErrors, selPc,
     selected, pc, cur, logs, model, returnedAt, calls, promise, timer,
     settled, outcome, exists, result >>

inputs == << argvModel, settingsModel, envModel, defaultModel, clientErrors >>
selVars == << selPc, selected >>
verVars ==
  << pc, cur, logs, model, returnedAt, calls, promise, timer, settled,
     outcome, exists, result >>

\* ---------------------------------------------------------- static selector

\* Mutant of rejectionLine: the value is not quoted.
rejectionLine_Unquoted(label, value) ==
  "Loading " \o label \o " " \o value \o " failed, not a valid model name."

\* The line tryPick pushes for a value that is not a supported model.
rejectionLine(label, value) ==
  "Loading " \o label \o " \"" \o value
    \o "\" failed, not a valid model name."

\* tryPick(label, value, logs): the value it returns and the logs it leaves.
tryPick(label, value, lg) ==
  IF Falsy(value) THEN [value |-> Undefined, logs |-> lg]
  ELSE IF ~isSupportedModel(value)
    THEN [value |-> Undefined, logs |-> Append(lg, rejectionLine(label, value))]
  ELSE [value |-> value, logs |-> lg]

\* Mutant of DefaultParam: the argument is ignored.
DefaultParam_Ignored(arg, dflt) == dflt

\* A default parameter: the default applies when the argument is undefined.
DefaultParam(arg, dflt) == IF arg = Undefined THEN dflt ELSE arg

\* Mutant of someFailed: every() in place of some().
someFailed_Every(lg) == \A i \in DOMAIN lg : includes(lg[i], "failed")

\* logs.some((l) => l.includes('failed'))
someFailed(lg) == \E i \in DOMAIN lg : includes(lg[i], "failed")

\* Mutant of selectModel: settings.json is tried before --model.
selectModel_SettingsFirst(argv, settings, env, dflt) ==
  LET dm == DefaultParam(dflt, DEFAULT_GEMINI_MODEL)
      p1 == tryPick("settings.json", settings, << >>)
      p2 == IF p1.value # Undefined THEN p1
            ELSE tryPick("--model", argv, p1.logs)
      p3 == IF p2.value # Undefined THEN p2
            ELSE tryPick("$GEMINI_MODEL", env, p2.logs)
      chosen == IF p3.value # Undefined THEN p3.value ELSE dm
      hadFailure == someFailed(p3.logs)
  IN  [model |-> chosen,
       logs |-> Append(p3.logs, "Using model " \o chosen),
       hadFailure |-> hadFailure]

\* selectModel(argv, settings, envModel, defaultModel).  a ?? b evaluates b
\* only when a is undefined.  envModel is the value in effect (the argument,
\* or process.env.GEMINI_MODEL when it is omitted).
selectModel(argv, settings, env, dflt) ==
  LET dm == DefaultParam(dflt, DEFAULT_GEMINI_MODEL)
      p1 == tryPick("--model", argv, << >>)
      p2 == IF p1.value # Undefined THEN p1
            ELSE tryPick("settings.json", settings, p1.logs)
      p3 == IF p2.value # Undefined THEN p2
            ELSE tryPick("$GEMINI_MODEL", env, p2.logs)
      chosen == IF p3.value # Undefined THEN p3.value ELSE dm
      hadFailure == someFailed(p3.logs)
  IN  [model |-> chosen,
       logs |-> Append(p3.logs, "Using model " \o chosen),
       hadFailure |-> hadFailure]

\* A call of selectModel with the inputs of this run.
SelectModel ==
  /\ selPc = "idle"
  /\ selected' = selectModel(argvModel, settingsModel, envModel, defaultModel)
  /\ selPc' = "done"
  /\ UNCHANGED << inputs, verVars >>

\* --------------------------------------------------------- timeout wrapper

\* Mutant of TimeoutError: the wrapper's error is worded differently from
\* the message the classifier looks for.
TimeoutError_Capitalised == [message |-> "Timeout"]

\* The error withTimeout's timer rejects with: new Error('timeout').
TimeoutError == [message |-> "timeout"]

\* Mutant of race: the promise follows the latest event, so an event that
\* arrives after the race was decided replaces the outcome.
race_LastWins(oc, event) == event

\* Promise.race: the first of the two events to happen settles the race; an
\* event that comes after the race has settled leaves it as it is.
race(oc, event) == IF oc.state = "pending" THEN event ELSE oc

\* -------------------------------------------------------- dynamic verifier

\* The three candidate sources in the order verifyModel examines them.
Sources == << "argv", "settings", "env" >>

Candidate(i) ==
  CASE i = 1 -> argvModel
    [] i = 2 -> settingsModel
    [] i = 3 -> envModel

\* Mutant of NotFoundLine: the env branch pasted from the settings branch
\* with its hint text left unchanged.
NotFoundLine_PastedHint(i, value) ==
  CASE i = 1 -> "Model \"" \o value \o "\" not found. Check your model name."
    [] i = 2 -> "Model \"" \o value \o "\" not found. Check your settings.json."
    [] i = 3 -> "Model \"" \o value \o "\" not found. Check your settings.json."

\* Mutant of NotFoundLine: the cli branch names the settings candidate in its
\* line.
NotFoundLine_NamesSettings(i, value) ==
  CASE i = 1 -> "Model \"" \o settingsModel
                 \o "\" not found. Check your model name."
    [] i = 2 -> "Model \"" \o value \o "\" not found. Check your settings.json."
    [] i = 3 -> "Model \"" \o value
                 \o "\" not found. Check your environment variable."

\* The line verifyModel pushes after a failed probe of source i.
NotFoundLine(i, value) ==
  CASE i = 1 -> "Model \"" \o value \o "\" not found. Check your model name."
    [] i = 2 -> "Model \"" \o value \o "\" not found. Check your settings.json."
    [] i = 3 -> "Model \"" \o value
                 \o "\" not found. Check your environment variable."

FallbackLine(dm) ==
  "No model found. Falling back to default model \"" \o dm \o "\""

has(obj, field) == field \in DOMAIN obj

\* Mutant of statusOf: only error.status is read.
statusOf_StatusOnly(error) ==
  IF has(error, "status") THEN << error.status >> ELSE << >>

\* error?.status ?? error?.code ?? error?.response?.status, as a sequence:
\* empty when the expression is undefined, else the number.
statusOf(error) ==
  IF has(error, "status") THEN << error.status >>
  ELSE IF has(error, "code") THEN << error.code >>
  ELSE IF has(error, "response") /\ has(error.response, "status")
    THEN << error.response.status >>
  ELSE << >>

\* The catch block of checkModelExists.
classify(error) ==
  LET st == statusOf(error)
      status == st[1]
      known == st # << >>
  IN  IF known /\ status = 404 THEN [exists |-> FALSE, reason |-> "unknown"]
      ELSE IF known /\ status = 403
        THEN [exists |-> FALSE, reason |-> "forbidden"]
      ELSE IF known /\ status = 401
        THEN [exists |-> FALSE, reason |-> "unauthorized"]
      ELSE IF known /\ status = 400
        THEN [exists |-> FALSE, reason |-> "invalid"]
      ELSE IF known /\ status = 429
        THEN [exists |-> FALSE, reason |-> "rate_limited"]
      ELSE IF known /\ status # 0 /\ status >= 500
        THEN [exists |-> FALSE, reason |-> "server_error"]
      ELSE IF has(error, "message") /\ error.message = "timeout"
        THEN [exists |-> FALSE, reason |-> "timeout"]
      ELSE [exists |-> FALSE, reason |-> "error"]

\* Mutant of checkModelExists: no try/catch around the awaited probe, so a
\* failure leaves the function as an exception.
checkModelExists_NoCatch(oc) ==
  IF oc.state = "fulfilled"
    THEN [kind |-> "return", value |-> [exists |-> TRUE]]
    ELSE [kind |-> "throw", err |-> oc.err]

\* Mutant of checkModelExists: the catch block swallows the error and falls
\* through to the success return.
checkModelExists_EmptyCatch(oc) ==
  [kind |-> "return", value |-> [exists |-> TRUE]]

\* How checkModelExists completes, given what its try block saw (oc): the
\* awaited race fulfilled, or the race rejected or countTokens threw with
\* oc.err.  It completes by returning a value (kind "return") or by throwing
\* to its caller (kind "throw").
checkModelExists(oc) ==
  IF oc.state = "fulfilled"
    THEN [kind |-> "return", value |-> [exists |-> TRUE]]
    ELSE [kind |-> "return", value |-> classify(oc.err)]

\* Mutant of confirmed: the test is made on the result object itself
\* (result === true), which no object passes, so no probe ends the chain.
confirmed_ObjectTest(res) == FALSE

\* Mutant of confirmed: the test is inverted, so the chain goes on after a
\* success and stops at a failure.
confirmed_Negated(res) == res.exists # TRUE

\* Mutant of confirmed: a server error is taken for a confirmation, so the
\* kind of a failure decides whether the chain stops.
confirmed_ServerErrorPasses(res) ==
  res.exists = TRUE \/ res.reason = "server_error"

\* The test verifyModel makes on each result: result.exists === true.
confirmed(res) == res.exists = TRUE

\* Mutant of nextTruthy: the if statement of the env source is missing.
nextTruthy_EnvSkipped(i) ==
  IF i > 2 THEN 4
  ELSE IF ~Falsy(Candidate(i)) THEN i
  ELSE IF i < 2 /\ ~Falsy(Candidate(i + 1)) THEN i + 1
  ELSE 4

\* The first source at or after i that holds a truthy candidate; 4 when
\* there is none.
RECURSIVE nextTruthy(_)
nextTruthy(i) ==
  IF i > 3 THEN 4
  ELSE IF ~Falsy(Candidate(i)) THEN i
  ELSE nextTruthy(i + 1)

\* verifyModel running from the if statement of source `from`, with logs lg,
\* to its next await or to its return after the last source.  At a truthy
\* candidate it calls checkModelExists, whose try block calls countTokens:
\* the call returns a promise, which withTimeout races against a timer it
\* arms, or the call throws and withTimeout is not reached.
Continue(from, lg) ==
  LET i == nextTruthy(from) IN
  IF i = 4
    THEN /\ logs' = Append(lg,
                      FallbackLine(DefaultParam(defaultModel, DEFAULT_GEMINI_MODEL)))
         /\ model' = DefaultParam(defaultModel, DEFAULT_GEMINI_MODEL)
         /\ returnedAt' = "default"
         /\ pc' = "done"
         /\ cur' = 0
         /\ outcome' = [state |-> "none"]
         /\ settled' = << >>
         /\ UNCHANGED << calls, promise, timer >>
    ELSE /\ logs' = lg
         /\ settled' = << >>
         /\ calls' = Append(calls, [source |-> Sources[i], model |-> Candidate(i)])
         /\ cur' = i
         /\ pc' = "await"
         /\ UNCHANGED << model, returnedAt >>
         /\ \/ /\ promise' = Append(promise, "pending")
               /\ timer' = Append(timer, "armed")
               /\ outcome' = [state |-> "pending"]
            \/ \E e \in clientErrors :
               /\ promise' = Append(promise, "none")
               /\ timer' = Append(timer, "none")
               /\ outcome' = [state |-> "rejected", err |-> e]

\* The caller invokes verifyModel.  The caller of this model uses the two
\* resolvers in combination: the static selection first, then the dynamic
\* verification of the same inputs; the resolvers share no state.
VerifyModel ==
  /\ selPc = "done"
  /\ pc = "idle"
  /\ Continue(1, << >>)
  /\ UNCHANGED << inputs, selVars, exists, result >>

\* The promise of call k settles: the probe succeeded, or failed with e.
OpSettle(k) ==
  /\ promise[k] = "pending"
  /\ \E ev \in {[state |-> "fulfilled"]}
               \cup {[state |-> "rejected", err |-> e] : e \in clientErrors} :
       /\ promise' = [promise EXCEPT ![k] = ev.state]
       /\ outcome' = IF k = Len(calls) /\ pc = "await"
                       THEN race(outcome, ev) ELSE outcome
       /\ settled' = IF k = Len(calls) /\ pc = "await"
                       THEN << ev >> ELSE settled
  /\ UNCHANGED << inputs, selVars, pc, cur, logs, model, returnedAt, calls,
                  timer, exists, result >>

\* Mutant of TimerFire: the timer callback builds the error but never calls
\* reject (setTimeout(() => new Error('timeout'), ms)), so the timer promise
\* stays pending.
TimerFire_NoReject(k) ==
  /\ timer[k] = "armed"
  /\ timer' = [timer EXCEPT ![k] = "fired"]
  /\ UNCHANGED << inputs, selVars, pc, cur, logs, model, returnedAt, calls,
                  promise, settled, outcome, exists, result >>

\* Mutant of TimerFire: the timer promise resolves where it should reject
\* (setTimeout(resolve, ms)), so a timeout reads as a success.
TimerFire_Resolves(k) ==
  /\ timer[k] = "armed"
  /\ timer' = [timer EXCEPT ![k] = "fired"]
  /\ outcome' = IF k = Len(calls) /\ pc = "await"
                  THEN race(outcome, [state |-> "fulfilled"])
                  ELSE outcome
  /\ UNCHANGED << inputs, selVars, pc, cur, logs, model, returnedAt, calls,
                  promise, settled, exists, result >>

\* The timer of call k fires.
TimerFire(k) ==
  /\ timer[k] = "armed"
  /\ timer' = [timer EXCEPT ![k] = "fired"]
  /\ outcome' = IF k = Len(calls) /\ pc = "await"
                  THEN race(outcome, [state |-> "rejected", err |-> TimeoutError])
                  ELSE outcome
  /\ UNCHANGED << inputs, selVars, pc, cur, logs, model, returnedAt, calls,
                  promise, settled, exists, result >>

\* verifyModel resumes after its await of checkModelExists.
Resume ==
  /\ pc = "await"
  /\ outcome.state \in {"fulfilled", "rejected"}
  /\ LET c == checkModelExists(outcome) IN
     IF c.kind = "throw"
       THEN /\ pc' = "rejected"
            /\ outcome' = [state |-> "none"]
            /\ settled' = << >>
            /\ UNCHANGED << cur, logs, model, returnedAt, calls, promise,
                            timer, exists, result >>
       ELSE /\ result' = c.value
            /\ exists' = Append(exists, c.value.exists)
            /\ IF confirmed(c.value)
                 THEN /\ model' = Candidate(cur)
                      /\ returnedAt' = Sources[cur]
                      /\ pc' = "done"
                      /\ outcome' = [state |-> "none"]
                      /\ settled' = << >>
                      /\ UNCHANGED << cur, logs, calls, promise, timer >>
                 ELSE Continue(cur + 1,
                               Append(logs, NotFoundLine(cur, Candidate(cur))))
  /\ UNCHANGED << inputs, selVars >>

\* ------------------------------------------------------------ specification

Init ==
  /\ argvModel \in CandidateValues
  /\ settingsModel \in CandidateValues
  /\ envModel \in CandidateValues
  /\ defaultModel \in DefaultValues
  /\ clientErrors = Errors
  /\ selPc = "idle"
  /\ selected = [model |-> Undefined, logs |-> << >>, hadFailure |-> FALSE]
  /\ pc = "idle"
  /\ cur = 0
  /\ logs = << >>
  /\ model = Undefined
  /\ returnedAt = "none"
  /\ calls = << >>
  /\ promise = << >>
  /\ timer = << >>
  /\ settled = << >>
  /\ outcome = [state |-> "none"]
  /\ exists = << >>
  /\ result = << >>

Next ==
  \/ SelectModel
  \/ VerifyModel
  \/ \E k \in DOMAIN promise : OpSettle(k)
  \/ \E k \in DOMAIN timer : TimerFire(k)
  \/ Resume

Spec == Init /\ [][Next]_vars

\* The runs of one probe client whose failures all carry the same error
\* value, for each error value of the pool, over a few candidates: a cli
\* candidate the registry lists, a settings candidate it does not, and an env
\* candidate of one space.
InitProbe ==
  /\ argvModel \in {Undefined, "gemini-2.5-pro"}
  /\ settingsModel \in {"", "failed-model"}
  /\ envModel \in {Undefined, " "}
  /\ defaultModel = Undefined
  /\ clientErrors \in {{ErrorPool[i]} : i \in DOMAIN ErrorPool}
  /\ selPc = "idle"
  /\ selected = [model |-> Undefined, logs |-> << >>, hadFailure |-> FALSE]
  /\ pc = "idle"
  /\ cur = 0
  /\ logs = << >>
  /\ model = Undefined
  /\ returnedAt = "none"
  /\ calls = << >>
  /\ promise = << >>
  /\ timer = << >>
  /\ settled = << >>
  /\ outcome = [state |-> "none"]
  /\ exists = << >>
  /\ result = << >>

SpecProbe == InitProbe /\ [][Next]_vars

\* What the event loop guarantees: a timer that is armed fires, and a
\* function suspended on a settled promise is resumed.  Nothing guarantees
\* that the probe operation settles.
Fairness ==
  /\ \A k \in 1..3 : WF_vars(k \in DOMAIN timer /\ TimerFire(k))
  /\ WF_vars(Resume)

FairSpec == InitProbe /\ [][Next]_vars /\ Fairness

\* ------------------------------------------------------------------ claims

\* A candidate is present when it is given and is not the empty string.
Present(value) == value # Undefined /\ value # ""

\* The sources that hold a present candidate, in priority order.
PresentSources == SelectSeq(<< 1, 2, 3 >>, LAMBDA i : Present(Candidate(i)))

\* The default in effect: the argument, or the registry's default when the
\* argument is omitted.
EffectiveDefault ==
  IF defaultModel = Undefined THEN "gemini-2.5-pro" ELSE defaultModel

\* Some completed probe of this invocation was seen to succeed.
SomeConfirmed == \E j \in DOMAIN exists : exists[j]

\* C1: the probe calls of an invocation are the present candidates in the
\* order cli, settings, env, up to and including the first one whose probe
\* succeeded: each call is for the next present candidate (so no candidate
\* is probed twice and an absent one never), nothing is probed after a
\* success, and at the return either a probe succeeded or every present
\* candidate was probed once.
C1_ProbeCalls ==
  /\ Len(calls) <= Len(PresentSources)
  /\ \A j \in DOMAIN calls :
       calls[j] = [source |-> Sources[PresentSources[j]],
                   model |-> Candidate(PresentSources[j])]
  /\ \A j \in DOMAIN exists : exists[j] => j = Len(calls)
  /\ pc = "done" =>
       /\ Len(exists) = Len(calls)
       /\ SomeConfirmed \/ Len(calls) = Len(PresentSources)

\* C1 witness: the first candidate failed, the second was confirmed, and the
\* third, though present, was not probed.
C1_Witness ==
  /\ pc = "done"
  /\ exists = << FALSE, TRUE >>
  /\ Len(calls) = 2
  /\ Len(PresentSources) = 3

\* C2: verifyModel returns the candidate of the first (and only) source whose
\* probe it saw succeed, and that probe's promise did fulfil; it leaves by
\* the default return, with the default in effect, exactly when no probe
\* succeeded.  A probe that fulfilled before its timer fired is seen to
\* succeed.
C2_ChosenModel ==
  /\ \A j \in DOMAIN exists :
       /\ exists[j] => promise[j] = "fulfilled"
       /\ (promise[j] = "fulfilled" /\ timer[j] = "armed") => exists[j]
  /\ pc = "done" =>
       /\ \A j \in DOMAIN exists :
            exists[j] => /\ model = Candidate(PresentSources[j])
                         /\ returnedAt = Sources[PresentSources[j]]
                         /\ \A h \in 1..(j - 1) : ~exists[h]
       /\ ~SomeConfirmed <=> returnedAt = "default"
       /\ returnedAt = "default" => model = EffectiveDefault

\* C2 witness: the settings candidate is returned after the cli candidate's
\* probe failed, with an env candidate present.
C2_Witness ==
  /\ pc = "done"
  /\ returnedAt = "settings"
  /\ model = settingsModel
  /\ Present(argvModel)
  /\ Present(envModel)
  /\ model # EffectiveDefault

\* The hint text of a source, as the specification words it.
HintText(source) ==
  CASE source = "argv" -> "model name"
    [] source = "settings" -> "settings.json"
    [] source = "env" -> "environment variable"

\* The not-found lines of the calls j..n.
RECURSIVE NotFoundLines(_, _)
NotFoundLines(j, n) ==
  IF j > n THEN << >>
  ELSE << "Model \"" \o calls[j].model \o "\" not found. Check your "
            \o HintText(calls[j].source) \o "." >>
       \o NotFoundLines(j + 1, n)

\* The number of completed probes that failed.
NumFailed == Cardinality({j \in DOMAIN exists : ~exists[j]})

\* C3: the returned logs are one not-found line per failed probe, in
\* priority order and with the hint of its source, followed by the fallback
\* line naming the default exactly when the default was chosen.
C3_Logs ==
  pc = "done" =>
    logs = NotFoundLines(1, NumFailed)
             \o (IF returnedAt = "default"
                   THEN << "No model found. Falling back to default model \""
                             \o EffectiveDefault \o "\"" >>
                   ELSE << >>)

\* C3 witness: three failing candidates and a given default: three not-found
\* lines and the fallback line.
C3_Witness ==
  /\ pc = "done"
  /\ exists = << FALSE, FALSE, FALSE >>
  /\ defaultModel # Undefined
  /\ Len(logs) = 4

\* C3 witness of the empty logs: the first present candidate is confirmed.
C3_WitnessEmpty == pc = "done" /\ exists = << TRUE >> /\ logs = << >>

\* C4: verifyModel never rejects: every probe that did not fulfil (it
\* rejected, it threw, or its timer cut it off) is taken as does-not-exist
\* and has its not-found line in the logs.
C4_NoPropagation ==
  /\ pc # "rejected"
  /\ \A j \in DOMAIN exists :
       promise[j] # "fulfilled" =>
         /\ ~exists[j]
         /\ \E l \in DOMAIN logs : logs[l] = NotFoundLines(j, j)[1]
  /\ pc = "done" => model # Undefined

\* C4 witness: one invocation where a probe threw synchronously, one was cut
\* off by its timer while still pending, and one rejected with a value that
\* has no status and no message; the invocation returned the default.
C4_Witness ==
  /\ pc = "done"
  /\ returnedAt = "default"
  /\ Len(calls) = 3
  /\ promise[1] = "none"
  /\ promise[2] = "pending" /\ timer[2] = "fired"
  /\ promise[3] = "rejected" /\ timer[3] = "armed"
  /\ result.reason = "error"

\* The value is a member of the registry.
InRegistry(value) ==
  \E i \in 1..Len(SUPPORTED_GEMINI_MODELS) : SUPPORTED_GEMINI_MODELS[i] = value

\* Source i holds a present candidate that the registry lists.
Acceptable(i) == Present(Candidate(i)) /\ InRegistry(Candidate(i))

\* The first source, in the order cli, settings, env, that holds an
\* acceptable candidate; 4 when there is none.
FirstAcceptable ==
  IF Acceptable(1) THEN 1
  ELSE IF Acceptable(2) THEN 2
  ELSE IF Acceptable(3) THEN 3
  ELSE 4

\* Source i is examined by selectModel and rejected: it comes before the
\* accepted source and holds a present candidate the registry does not list.
RejectedSource(i) ==
  /\ i < FirstAcceptable
  /\ Present(Candidate(i))
  /\ ~InRegistry(Candidate(i))

\* The label of a source in selectModel's log lines.
LabelText(i) ==
  CASE i = 1 -> "--model"
    [] i = 2 -> "settings.json"
    [] i = 3 -> "$GEMINI_MODEL"

StartsWith(s, prefix) ==
  Len(s) >= Len(prefix) /\ SubSeq(s, 1, Len(prefix)) = prefix

EndsWith(s, suffix) ==
  Len(s) >= Len(suffix) /\ SubSeq(s, Len(s) - Len(suffix) + 1, Len(s)) = suffix

\* C5: selectModel chooses the first present candidate that is in the
\* registry; the sources after it are not logged; with no such candidate it
\* chooses the default in effect.
C5_FirstSupported ==
  selPc = "done" =>
    LET first == FirstAcceptable IN
    /\ selected.model = IF first <= 3 THEN Candidate(first)
                        ELSE EffectiveDefault
    /\ \A i \in first..3 :
         \A l \in DOMAIN selected.logs :
           ~StartsWith(selected.logs[l], "Loading " \o LabelText(i) \o " ")
    /\ Len(selected.logs) =
         Cardinality({i \in 1..(first - 1) :
                        Present(Candidate(i)) /\ ~InRegistry(Candidate(i))}) + 1

\* C5 witness: a supported cli candidate wins over a supported settings
\* candidate and an unsupported env candidate, neither of which is logged.
C5_Witness ==
  /\ selPc = "done"
  /\ InRegistry(argvModel)
  /\ InRegistry(settingsModel)
  /\ argvModel # settingsModel
  /\ Present(envModel) /\ ~InRegistry(envModel)
  /\ selected.model = argvModel
  /\ Len(selected.logs) = 1

\* C6: the chosen model of selectModel is one of the cli, settings and env
\* values and the default in effect, and the last log line is
\* 'Using model <chosen>'.
C6_ChosenAndLastLine ==
  selPc = "done" =>
    /\ selected.model \in {argvModel, settingsModel, envModel, EffectiveDefault}
    /\ selected.model # Undefined
    /\ Len(selected.logs) >= 1
    /\ selected.logs[Len(selected.logs)] = "Using model " \o selected.model

\* C6 witness: a given default is chosen after a rejection.
C6_Witness ==
  /\ selPc = "done"
  /\ defaultModel # Undefined
  /\ selected.model = defaultModel
  /\ Len(selected.logs) = 2

\* A rejection line of selectModel.
IsRejectionLine(line) ==
  /\ StartsWith(line, "Loading ")
  /\ EndsWith(line, " failed, not a valid model name.")

\* C7: hadFailure is true exactly when a rejection line was produced, that
\* is, when some examined source was rejected.
C7_HadFailure ==
  selPc = "done" =>
    /\ selected.hadFailure <=> \E i \in 1..3 : RejectedSource(i)
    /\ selected.hadFailure <=>
         \E l \in DOMAIN selected.logs : IsRejectionLine(selected.logs[l])

\* C7 witness: an invalid cli value that contains 'failed', then a valid
\* settings value: the settings value is chosen and hadFailure is true.
C7_Witness ==
  /\ selPc = "done"
  /\ includes(argvModel, "failed")
  /\ InRegistry(settingsModel)
  /\ selected.model = settingsModel
  /\ selected.hadFailure

\* C7 witness of the other side: the chosen default contains 'failed', no
\* candidate was rejected and hadFailure is false.
C7_WitnessDefault ==
  /\ selPc = "done"
  /\ includes(selected.model, "failed")
  /\ ~selected.hadFailure

\* The rejection lines of the sources i..3, in priority order.
RECURSIVE RejectionLines(_)
RejectionLines(i) ==
  IF i > 3 THEN << >>
  ELSE (IF RejectedSource(i)
          THEN << "Loading " \o LabelText(i) \o " \"" \o Candidate(i)
                    \o "\" failed, not a valid model name." >>
          ELSE << >>)
       \o RejectionLines(i + 1)

\* C8: the logs of selectModel are the rejection lines of the rejected
\* sources, in priority order and each with the label of its source,
\* followed by the 'Using model' line, and nothing else.
C8_RejectionLines ==
  selPc = "done" =>
    selected.logs = RejectionLines(1) \o << "Using model " \o selected.model >>

\* C8 witness: three rejected candidates: three rejection lines and the
\* final line.
C8_Witness ==
  /\ selPc = "done"
  /\ \A i \in 1..3 : RejectedSource(i)
  /\ Len(selected.logs) = 4

\* Source i holds no candidate: it is undefined or the empty string.
Absent(i) == Candidate(i) = Undefined \/ Candidate(i) = ""

\* Some log line of selectModel is a rejection line of source i.
SelectLogged(i) ==
  \E l \in DOMAIN selected.logs :
    StartsWith(selected.logs[l], "Loading " \o LabelText(i) \o " ")

\* Some log line of verifyModel is a not-found line of source i.
VerifyLogged(i) ==
  \E l \in DOMAIN logs :
    EndsWith(logs[l], " not found. Check your " \o HintText(Sources[i]) \o ".")

\* Some probe call was made for source i.
Probed(i) == \E j \in DOMAIN calls : calls[j].source = Sources[i]

\* C9: a source whose candidate is undefined or the empty string is skipped
\* silently by both resolvers: no rejection line and no not-found line names
\* it, it is never probed, and it is not the chosen model.
C9_AbsentSkipped ==
  \A i \in 1..3 :
    Absent(i) =>
      /\ ~Probed(i)
      /\ ~VerifyLogged(i)
      /\ returnedAt # Sources[i]
      /\ pc = "done" => model # Candidate(i)
      /\ selPc = "done" => ~SelectLogged(i) /\ selected.model # Candidate(i)

\* C9 witness: cli is the empty string and settings is undefined; the env
\* candidate, rejected by selectModel, is the only one probed and its probe
\* failed.
C9_Witness ==
  /\ pc = "done"
  /\ argvModel = ""
  /\ settingsModel = Undefined
  /\ Len(calls) = 1
  /\ calls[1].source = "env"
  /\ Len(logs) = 2
  /\ Len(selected.logs) = 2

\* C9 witness with every source absent: no probe, the fallback line only.
C9_WitnessAllAbsent ==
  /\ pc = "done"
  /\ \A i \in 1..3 : Absent(i)
  /\ calls = << >>
  /\ Len(logs) = 1

\* String.prototype.trim, for the blank character the inputs contain.
RECURSIVE trim(_)
trim(s) ==
  IF Len(s) = 0 THEN s
  ELSE IF SubSeq(s, 1, 1) = " " THEN trim(SubSeq(s, 2, Len(s)))
  ELSE IF SubSeq(s, Len(s), Len(s)) = " " THEN trim(SubSeq(s, 1, Len(s) - 1))
  ELSE s

\* Source i holds a candidate that consists only of whitespace.
Blank(i) ==
  /\ Candidate(i) # Undefined
  /\ Candidate(i) # ""
  /\ trim(Candidate(i)) = ""

\* C10 as claimed: a whitespace-only candidate is skipped silently like an
\* absent one: selectModel emits no rejection line for it (and, when no
\* other source is rejected, hadFailure is false), and verifyModel issues no
\* probe and no not-found line for it.
C10_BlankSkipped ==
  \A i \in 1..3 :
    Blank(i) =>
      /\ ~Probed(i)
      /\ ~VerifyLogged(i)
      /\ selPc = "done" =>
           /\ ~SelectLogged(i)
           /\ (\A h \in 1..3 : h # i => ~RejectedSource(h))
                => ~selected.hadFailure

\* C10 amended: a whitespace-only candidate is present.  When selectModel
\* examines it (no source before it is accepted) it emits the rejection line
\* for it and hadFailure is true; when verifyModel reaches it (it did not
\* return at a source before it) it probes it, and a failed probe of it has
\* its not-found line.
C10_BlankIsPresent ==
  \A i \in 1..3 :
    Blank(i) =>
      /\ (selPc = "done" /\ i < FirstAcceptable) =>
           /\ \E l \in DOMAIN selected.logs :
                selected.logs[l] =
                  "Loading " \o LabelText(i) \o " \"" \o Candidate(i)
                    \o "\" failed, not a valid model name."
           /\ selected.hadFailure
      /\ (pc = "done" /\ \A h \in 1..(i - 1) : returnedAt # Sources[h]) =>
           \E j \in DOMAIN calls :
             /\ calls[j] = [source |-> Sources[i], model |-> Candidate(i)]
             /\ ~exists[j] =>
                  \E l \in DOMAIN logs :
                    logs[l] = "Model \"" \o Candidate(i)
                                \o "\" not found. Check your "
                                \o HintText(Sources[i]) \o "."

\* C10 witness: a whitespace-only cli candidate is rejected by selectModel
\* and probed by verifyModel, and the probe failed.
C10_Witness ==
  /\ pc = "done"
  /\ Blank(1)
  /\ selected.hadFailure
  /\ SelectLogged(1)
  /\ calls[1].model = argvModel
  /\ ~exists[1]
  /\ VerifyLogged(1)

\* ---------------------------------------------------------------- C11

\* The awaited call, while verifyModel stays suspended on it across a step.
SameAwait == pc = "await" /\ pc' = "await" /\ Len(calls') = Len(calls)

\* C11: withTimeout settles with whichever of the two events happens first.
\* While the race is undecided, the operation settling decides it with
\* exactly the operation's value or error, and the timer firing decides it
\* with a rejection whose message is 'timeout'; any other event leaves it
\* undecided.  Once decided, the later event does not change the outcome.
\* The timer firing does not cancel the operation: its promise is left as
\* it is.
C11_FirstSettlerWins ==
  [][SameAwait =>
       LET k == Len(calls)
           opSettled == settled' # settled
           timerFired == timer'[k] # timer[k]
       IN  /\ (outcome.state = "pending" /\ opSettled) =>
                 outcome' = settled'[1]
           /\ (outcome.state = "pending" /\ timerFired) =>
                 outcome' = [state |-> "rejected",
                             err |-> [message |-> "timeout"]]
           /\ (outcome.state = "pending" /\ ~opSettled /\ ~timerFired) =>
                 outcome' = outcome
           /\ outcome.state # "pending" => outcome' = outcome
           /\ timer' # timer => promise' = promise]_vars

\* C11 witness: the timer of the awaited call fired first and the operation,
\* not cancelled, fulfilled afterwards; the race still shows the timeout.
C11_Witness ==
  /\ pc = "await"
  /\ timer[Len(calls)] = "fired"
  /\ promise[Len(calls)] = "fulfilled"
  /\ settled = << [state |-> "fulfilled"] >>
  /\ outcome = [state |-> "rejected", err |-> [message |-> "timeout"]]

\* C11 witness: the operation rejected first and the timer fired afterwards;
\* the race still shows the operation's error.
C11_WitnessOpFirst ==
  /\ pc = "await"
  /\ timer[Len(calls)] = "fired"
  /\ settled # << >>
  /\ settled[1].state = "rejected"
  /\ outcome = settled[1]
  /\ outcome.err # [message |-> "timeout"]

\* ---------------------------------------------------------------- C12

\* The names the registry lists, written out.
SupportedNames ==
  { "gemini-2.5-pro", "gemini-2.5-flash", "gemini-2.5-flash-lite",
    "gemini-1.5-pro", "gemini-1.5-flash" }

\* C12: isSupportedModel(name) is true if and only if name is a non-empty
\* string that the registry lists, and so false for undefined and for the
\* empty string.  It is the sole criterion of selectModel: a candidate it
\* examined is rejected exactly when isSupportedModel is false for it, and a
\* candidate is chosen only when isSupportedModel is true for it.  The
\* registry is a constant of the module: no step of the program changes it.
C12_IsSupported ==
  /\ \A v \in {argvModel, settingsModel, envModel, defaultModel} :
       isSupportedModel(v) <=>
         (v # Undefined /\ v # "" /\ v \in SupportedNames)
  /\ ~isSupportedModel(Undefined)
  /\ ~isSupportedModel("")
  /\ {SUPPORTED_GEMINI_MODELS[i] : i \in DOMAIN SUPPORTED_GEMINI_MODELS}
       = SupportedNames
  /\ selPc = "done" =>
       \A i \in 1..3 :
         /\ SelectLogged(i) => Candidate(i) \notin SupportedNames
         /\ (i = FirstAcceptable) =>
              /\ selected.model = Candidate(i)
              /\ Candidate(i) \in SupportedNames

\* C12 witness: selectModel ran over an empty cli candidate, a settings
\* candidate the registry does not list, and an env candidate it lists.
C12_Witness ==
  /\ selPc = "done"
  /\ argvModel = ""
  /\ settingsModel = "failed-model"
  /\ envModel = "gemini-1.5-flash"
  /\ ~isSupportedModel(argvModel)
  /\ ~isSupportedModel(settingsModel)
  /\ isSupportedModel(envModel)
  /\ selected.model = envModel

\* ---------------------------------------------------------------- C13

\* The model verifyModel returns, as a function of the candidates, the
\* default and the pattern ex of which probes succeeded, and of nothing else.
ModelOf(ex) ==
  IF \E j \in DOMAIN ex : ex[j]
    THEN Candidate(PresentSources[CHOOSE j \in DOMAIN ex : ex[j]])
    ELSE EffectiveDefault

\* The logs verifyModel returns, as a function of the same: the not-found
\* lines of the failed probes j.., then the fallback line if none succeeded.
RECURSIVE LogsOf(_, _)
LogsOf(ex, j) ==
  IF j > Len(ex)
    THEN IF \E h \in DOMAIN ex : ex[h]
           THEN << >>
           ELSE << "No model found. Falling back to default model \""
                     \o EffectiveDefault \o "\"" >>
    ELSE (IF ex[j]
            THEN << >>
            ELSE << "Model \"" \o Candidate(PresentSources[j])
                      \o "\" not found. Check your "
                      \o (CASE PresentSources[j] = 1 -> "model name"
                            [] PresentSources[j] = 2 -> "settings.json"
                            [] PresentSources[j] = 3 -> "environment variable")
                      \o "." >>)
         \o LogsOf(ex, j + 1)

\* C13: the result of verifyModel does not depend on why a probe failed.
\* The chosen model and the whole log sequence are a function of the
\* candidates, the default and the pattern of which probes succeeded; the
\* kind of a failure (a status, a timeout, an error without status, a throw)
\* is no argument of that function, so two runs that differ only in failure
\* kinds return the same model and the same logs.
C13_FailureKindIrrelevant ==
  pc = "done" =>
    /\ model = ModelOf(exists)
    /\ logs = LogsOf(exists, 1)

\* C13 witness: one invocation saw two failures of different kinds, a
\* timeout of the first probe and a 5xx of the second, and returned.
C13_Witness ==
  /\ pc = "done"
  /\ exists = << FALSE, FALSE >>
  /\ timer[1] = "fired"
  /\ promise[1] = "pending"
  /\ promise[2] = "rejected"
  /\ timer[2] = "armed"
  /\ result.reason = "server_error"

\* C13 witness: the same exists pattern reached with the second failure an
\* error without status.
C13_WitnessNoStatus ==
  /\ pc = "done"
  /\ exists = << FALSE, FALSE >>
  /\ timer[1] = "fired"
  /\ promise[1] = "pending"
  /\ promise[2] = "rejected"
  /\ timer[2] = "armed"
  /\ result.reason = "error"

\* ---------------------------------------------------------------- C14

\* The status of an error as the claim reads it: the field 'status', else
\* the field 'code', else the field 'status' of the field 'response'; -1
\* when there is none.
StatusField(e) ==
  IF "status" \in DOMAIN e THEN e.status
  ELSE IF "code" \in DOMAIN e THEN e.code
  ELSE IF "response" \in DOMAIN e /\ "status" \in DOMAIN e.response
    THEN e.response.status
  ELSE -1

\* The reason the table gives for an error.
ReasonOf(e) ==
  CASE StatusField(e) = 404 -> "unknown"
    [] StatusField(e) = 403 -> "forbidden"
    [] StatusField(e) = 401 -> "unauthorized"
    [] StatusField(e) = 400 -> "invalid"
    [] StatusField(e) = 429 -> "rate_limited"
    [] StatusField(e) >= 500 -> "server_error"
    [] OTHER -> IF "message" \in DOMAIN e /\ e.message = "timeout"
                  THEN "timeout" ELSE "error"

\* C14: for every failed probe checkModelExists returns exists = false with
\* exactly one reason, the one the table gives for the error its catch block
\* received: whenever verifyModel resumes from a probe whose awaited race
\* rejected (or whose call threw) with an error, the result it receives is
\* exists = false with the table's reason for that error, and nothing else.
C14_Classification ==
  [][(pc = "await" /\ outcome.state = "rejected"
        /\ Len(exists') = Len(exists) + 1) =>
       result' = [exists |-> FALSE, reason |-> ReasonOf(outcome.err)]]_vars

\* C14 witness: a probe that rejected with a status of 503 nested under
\* 'response', its timer still armed, was classified as a server error.
C14_Witness ==
  /\ clientErrors = {[response |-> [status |-> 503]]}
  /\ Len(exists) = 1
  /\ promise[1] = "rejected"
  /\ timer[1] = "armed"
  /\ result = [exists |-> FALSE, reason |-> "server_error"]

\* C14 witness: a status of 0 is a status: the code 404 beside it is not
\* read, and the reason is the generic one.
C14_WitnessZeroStatus ==
  /\ clientErrors = {[status |-> 0, code |-> 404]}
  /\ Len(exists) = 1
  /\ promise[1] = "rejected"
  /\ timer[1] = "armed"
  /\ result = [exists |-> FALSE, reason |-> "error"]

\* C14 witness: a code of 404 with no status field is classified unknown.
C14_WitnessCode ==
  /\ clientErrors = {[code |-> 404]}
  /\ Len(exists) = 1
  /\ promise[1] = "rejected"
  /\ timer[1] = "armed"
  /\ result = [exists |-> FALSE, reason |-> "unknown"]

\* ---------------------------------------------------------------- C15

\* verifyModel resumes from the awaited probe with a failure.
ResumeFailed ==
  /\ pc = "await"
  /\ outcome.state = "rejected"
  /\ Len(exists') = Len(exists) + 1

\* The error carries the message 'timeout' and no status that the table maps
\* to another reason.
TimeoutSignal(e) ==
  /\ "message" \in DOMAIN e
  /\ e.message = "timeout"
  /\ StatusField(e) \notin {404, 403, 401, 400, 429}
  /\ StatusField(e) < 500

\* C15 as claimed: a probe is classified 'timeout' only when the wrapper's
\* timer fired before the operation settled, and a failure produced by the
\* operation itself is never classified 'timeout': the last completed probe
\* is not classified 'timeout' when its operation rejected and its timer
\* has not fired.
C15_TimeoutOnlyFromTimer ==
  (exists # << >> /\ ~exists[Len(exists)] /\ result.reason = "timeout")
    => ~(promise[Len(exists)] = "rejected" /\ timer[Len(exists)] = "armed")

\* C15 as amended: a probe is classified 'timeout' only when the error caught
\* carries the message 'timeout'.  That is so whenever the timer fired
\* while the operation had not settled; and when the operation itself
\* failed before the timer fired, the probe is classified 'timeout' exactly
\* when the operation's own error carries the message 'timeout' and no
\* status that maps to another reason.
C15_TimeoutByMessage ==
  [][ResumeFailed =>
       LET k == Len(calls) IN
       /\ result'.reason = "timeout" => TimeoutSignal(outcome.err)
       /\ (promise[k] = "pending" /\ timer[k] = "fired") =>
            result'.reason = "timeout"
       /\ (promise[k] = "rejected" /\ timer[k] = "armed") =>
            /\ outcome = settled[1]
            /\ result'.reason = "timeout" <=> TimeoutSignal(settled[1].err)
       /\ promise[k] = "none" =>
            result'.reason = "timeout" <=> TimeoutSignal(outcome.err)]_vars

\* C15 witness: the operation itself rejected with the message 'timeout'
\* while the timer was still armed, and the probe was classified 'timeout'.
C15_Witness ==
  /\ clientErrors = {[message |-> "timeout"]}
  /\ Len(exists) = 1
  /\ promise[1] = "rejected"
  /\ timer[1] = "armed"
  /\ result = [exists |-> FALSE, reason |-> "timeout"]

\* C15 witness: the timer fired while the operation was pending, and the
\* probe was classified 'timeout'.
C15_WitnessTimer ==
  /\ Len(exists) = 1
  /\ promise[1] = "pending"
  /\ timer[1] = "fired"
  /\ result = [exists |-> FALSE, reason |-> "timeout"]

\* C15 witness: the operation rejected with the message 'timeout' beside a
\* status of 404, and the probe was classified by the status.
C15_WitnessStatusWins ==
  /\ clientErrors = {[status |-> 404, message |-> "timeout"]}
  /\ Len(exists) = 1
  /\ promise[1] = "rejected"
  /\ timer[1] = "armed"
  /\ result = [exists |-> FALSE, reason |-> "unknown"]

\* ---------------------------------------------------------------- C16

\* C16: verifyModel issues its probes strictly one after another.  Whenever
\* a probe has been issued, the outcome of every earlier probe has been
\* observed (the operation settled, or threw, or its timer fired) and was a
\* failure, and the not-found lines of all earlier probes are already in the
\* logs, in order; while a probe is awaited these are the whole logs.
C16_OneAfterAnother ==
  /\ Len(exists) \in {Len(calls) - 1, Len(calls)}
  /\ \A h \in 1..(Len(calls) - 1) :
       /\ ~exists[h]
       /\ ~(promise[h] = "pending" /\ timer[h] = "armed")
       /\ Len(logs) >= h
       /\ logs[h] = "Model \"" \o calls[h].model \o "\" not found. Check your "
                      \o HintText(calls[h].source) \o "."
  /\ pc = "await" =>
       /\ Len(exists) = Len(calls) - 1
       /\ Len(logs) = Len(calls) - 1

\* C16 witness: the third probe is awaited after the first was abandoned at
\* its timeout and the second rejected; two not-found lines are logged.
C16_Witness ==
  /\ pc = "await"
  /\ Len(calls) = 3
  /\ outcome.state = "pending"
  /\ promise[1] = "pending"
  /\ timer[1] = "fired"
  /\ promise[2] = "rejected"
  /\ Len(logs) = 2

\* ---------------------------------------------------------------- C17

\* The probe requests issued to the client and not yet settled.
Outstanding == {k \in DOMAIN promise : promise[k] = "pending"}

\* C17 as claimed: at every moment at most one probe request is outstanding,
\* also after a probe has been abandoned by its timeout.
C17_AtMostOneOutstanding == Cardinality(Outstanding) <= 1

\* C17 as amended: at every moment at most one probe is awaited, that is,
\* outstanding with its timer not yet fired, and it is the latest one
\* issued.  Every other outstanding request is one that was abandoned by its
\* timeout and reported as a failure; it is not cancelled, so up to one
\* request per present candidate can be outstanding at once.
C17_AtMostOneAwaited ==
  /\ Cardinality({k \in Outstanding : timer[k] = "armed"}) <= 1
  /\ \A k \in Outstanding :
       IF timer[k] = "armed"
         THEN pc = "await" /\ k = Len(calls) /\ outcome.state = "pending"
         ELSE /\ timer[k] = "fired"
              /\ (k < Len(calls) \/ pc # "await") =>
                   (k \in DOMAIN exists /\ ~exists[k])
  /\ Cardinality(Outstanding) <= Len(PresentSources)

\* C17 witness: the third probe is awaited while the requests of the first
\* two, abandoned by their timeouts, are still outstanding.
C17_Witness ==
  /\ pc = "await"
  /\ Len(calls) = 3
  /\ Outstanding = {1, 2, 3}
  /\ timer = << "fired", "fired", "armed" >>
  /\ exists = << FALSE, FALSE >>

\* ---------------------------------------------------------------- C18

\* C18: verifyModel always eventually returns, even when probe operations
\* never settle.  With every armed timer eventually firing and nothing
\* assumed of the operations, every invocation that was started reaches its
\* return; on the way it arms at most one timer per present candidate, at
\* most three, and it is suspended only on the probe it awaits, whose timer
\* is armed or whose race is already decided.
C18_EventuallyReturns ==
  /\ [](/\ Len(timer) <= Len(PresentSources)
        /\ Len(PresentSources) <= 3
        /\ pc \in {"idle", "await", "done"}
        /\ pc = "await" =>
             \/ outcome.state \in {"fulfilled", "rejected"}
             \/ timer[Len(calls)] = "armed")
  /\ (pc # "idle") ~> (pc = "done")

\* C18 witness: verifyModel returned the default after three deadlines
\* passed, none of the three operations having settled.
C18_Witness ==
  /\ pc = "done"
  /\ returnedAt = "default"
  /\ Len(calls) = 3
  /\ \A k \in 1..3 : promise[k] = "pending" /\ timer[k] = "fired"

\* ---------------------------------------------------------------- C19

\* The remote service mirrors the registry in this run: every probe
\* completed so far succeeded exactly when its identifier is one the
\* registry lists (so none that would succeed was lost to a timeout).
Mirror ==
  \A j \in DOMAIN exists : exists[j] <=> calls[j].model \in SupportedNames

\* C19: when the remote service mirrors the registry, static and dynamic
\* resolution of the same cli, settings, env and default values agree:
\* verifyModel returns the model selectModel returns, and verifyModel logs a
\* not-found line for exactly the sources for which selectModel logs a
\* rejection line.
C19_StaticDynamicAgree ==
  (selPc = "done" /\ pc = "done" /\ Mirror) =>
    /\ model = selected.model
    /\ \A i \in 1..3 : VerifyLogged(i) <=> SelectLogged(i)

\* C19 witness: both resolvers rejected the cli candidate, which the
\* registry does not list and whose probe was rejected, and chose the
\* settings candidate, which it lists and whose probe fulfilled.
C19_Witness ==
  /\ selPc = "done"
  /\ pc = "done"
  /\ Mirror
  /\ argvModel = "failed-model"
  /\ settingsModel = "gemini-1.5-flash"
  /\ promise = << "rejected", "fulfilled" >>
  /\ model = settingsModel
  /\ selected.model = settingsModel
  /\ VerifyLogged(1)
  /\ SelectLogged(1)

\* ---------------------------------------------------------------- C20

\* Some not-found line of this invocation names the identifier v.
LoggedNotFound(v) ==
  \E l \in DOMAIN logs : StartsWith(logs[l], "Model \"" \o v \o "\" not found.")

\* The source whose candidate verifyModel returned; 4 for the default.
ReturnedSource ==
  CASE returnedAt = "argv" -> 1
    [] returnedAt = "settings" -> 2
    [] returnedAt = "env" -> 3
    [] OTHER -> 4

\* The present candidates are pairwise different identifiers and none is the
\* default in effect.
DistinctIdentifiers ==
  /\ \A i, h \in 1..3 :
       (i # h /\ Present(Candidate(i)) /\ Present(Candidate(h)))
         => Candidate(i) # Candidate(h)
  /\ \A i \in 1..3 : Present(Candidate(i)) => Candidate(i) # EffectiveDefault

\* C20 as claimed: the chosen model is never an identifier for which a
\* not-found line was logged in the same invocation, whatever the inputs.
C20_ChosenNeverLogged == pc = "done" => ~LoggedNotFound(model)

\* C20 as amended: no not-found line is logged for the source whose
\* candidate is chosen.  The chosen identifier is one a not-found line names
\* only when a later source supplied the same identifier and its probe
\* succeeded, or when every probe failed and the identifier equals the
\* default; with present candidates that are pairwise different and differ
\* from the default, the chosen model is never a logged identifier.
C20_ChosenSourceNotLogged ==
  pc = "done" =>
    /\ ReturnedSource # 4 => ~VerifyLogged(ReturnedSource)
    /\ \A i \in 1..3 :
         (VerifyLogged(i) /\ Candidate(i) = model) =>
           /\ i < ReturnedSource
           /\ \/ ReturnedSource = 4 /\ model = EffectiveDefault
              \/ ReturnedSource # 4 /\ exists[Len(exists)]
    /\ DistinctIdentifiers => ~LoggedNotFound(model)

\* C20 witness: the cli and settings sources supply the same identifier; the
\* cli probe failed and was logged, the settings probe succeeded, and the
\* identifier was chosen.
C20_Witness ==
  /\ pc = "done"
  /\ argvModel = settingsModel
  /\ returnedAt = "settings"
  /\ exists = << FALSE, TRUE >>
  /\ LoggedNotFound(model)
  /\ ~VerifyLogged(2)

\* C20 witness: the only candidate equals the default; its probe failed and
\* was logged, and the default was returned.
C20_WitnessDefault ==
  /\ pc = "done"
  /\ returnedAt = "default"
  /\ argvModel = "gemini-2.5-pro"
  /\ model = argvModel
  /\ LoggedNotFound(model)

\* C20 witness: three different candidates, none the default; two were
\* logged and the third was chosen.
C20_WitnessDistinct ==
  /\ pc = "done"
  /\ DistinctIdentifiers
  /\ returnedAt = "env"
  /\ Len(logs) = 2
  /\ ~LoggedNotFound(model)

====
